---- MODULE Spec2Model ----
(***************************************************************************)
(* Model of the MCP bridge to the Mistral / Codestral HTTP APIs:           *)
(*   src/src/mistral.ts    the MistralAPI client                           *)
(*   src/unnamed/part_000  the MCP server (startup, tool handlers)         *)
(*                                                                         *)
(* Texts whose characters matter (model output, fenced blocks) are         *)
(* sequences of one-character tokens: "bt" is a backtick, "\n" a newline,  *)
(* " " a blank, "-" a punctuation mark; the others are word characters.    *)
(* Messages whose characters do not matter are TLA+ strings built with \o  *)
(* the way the template literals of the source build them.                 *)
(***************************************************************************)
EXTENDS Integers, Sequences, FiniteSets, TLC

(***************************************************************************)
(* Bounds of the model.                                                    *)
(***************************************************************************)
MaxTicks == 2       \* the clock stops advancing after this many ticks
TickMs == 50        \* milliseconds per clock tick
MaxChoices == 1     \* longest choices list of an upstream reply
MaxPieces == 6      \* longest model output, in pieces, given to the extractor
NumCallers == 2     \* call sequences that use enforceRateLimit
MaxPacerCalls == 3  \* calls of enforceRateLimit in one behaviour
PacerTicks == 6     \* clock ticks while enforceRateLimit is examined

(***************************************************************************)
(* JavaScript's undefined, for absent options and fields.                  *)
(***************************************************************************)
Undefined == "undefined"

(***************************************************************************)
(* mistral.ts: model registry and endpoint router.                         *)
(***************************************************************************)
CODESTRAL_API_BASE == "https://codestral.mistral.ai/v1"
MISTRAL_API_BASE == "https://api.mistral.com/v1"

MISTRAL_MODELS ==
  [CODESTRAL       |-> "codestral-latest",
   CODESTRAL_MAMBA |-> "codestral-mamba-latest",
   MISTRAL_LARGE   |-> "mistral-large-latest",
   MISTRAL_SMALL   |-> "mistral-small-latest",
   MINISTRAL_8B    |-> "ministral-8b-latest",
   MINISTRAL_3B    |-> "ministral-3b-latest"]

\* The two capability classes, as the comments of MISTRAL_MODELS declare them.
CodeModels == {MISTRAL_MODELS.CODESTRAL, MISTRAL_MODELS.CODESTRAL_MAMBA}
GeneralModels == {MISTRAL_MODELS.MISTRAL_LARGE, MISTRAL_MODELS.MISTRAL_SMALL,
                  MISTRAL_MODELS.MINISTRAL_8B, MISTRAL_MODELS.MINISTRAL_3B}
MistralModel == CodeModels \cup GeneralModels

\* A plausible slip: the second code-specialized identifier is forgotten.
getApiBase_OnlyCodestral(model) ==
  IF model = MISTRAL_MODELS.CODESTRAL
    THEN CODESTRAL_API_BASE
    ELSE MISTRAL_API_BASE

getApiBase(model) ==
  IF model = MISTRAL_MODELS.CODESTRAL \/ model = MISTRAL_MODELS.CODESTRAL_MAMBA
    THEN CODESTRAL_API_BASE
    ELSE MISTRAL_API_BASE

\* The two axios instances the constructor creates, by their baseURL.
codestralClient == [baseURL |-> CODESTRAL_API_BASE, timeout |-> 30000]
mistralClient == [baseURL |-> MISTRAL_API_BASE, timeout |-> 30000]

getClient(model) ==
  IF getApiBase(model) = CODESTRAL_API_BASE
    THEN codestralClient
    ELSE mistralClient

(***************************************************************************)
(* Texts as sequences of one-character tokens.                             *)
(***************************************************************************)
BT == "bt"
NL == "\n"
SP == " "
WhiteSpace == {NL, SP}
\* \w of the regular expression: letters, digits and the underscore.
WordChars == {"a", "b", "j", "s", "x", "y", "1", "_"}
IsWord(c) == c \in WordChars

SubText(s, from, to) == IF from > to THEN <<>> ELSE SubSeq(s, from, to)

\* String.prototype.trim
RECURSIVE TrimStart(_)
TrimStart(s) ==
  IF s # <<>> /\ Head(s) \in WhiteSpace THEN TrimStart(Tail(s)) ELSE s

RECURSIVE TrimEnd(_)
TrimEnd(s) ==
  IF s # <<>> /\ s[Len(s)] \in WhiteSpace
    THEN TrimEnd(SubText(s, 1, Len(s) - 1))
    ELSE s

Trim(s) == TrimEnd(TrimStart(s))

\* Array.prototype.join
RECURSIVE Join(_, _)
Join(parts, sep) ==
  IF parts = <<>> THEN <<>>
  ELSE IF Len(parts) = 1 THEN parts[1]
  ELSE parts[1] \o sep \o Join(Tail(parts), sep)

\* Three backticks at position i.
FenceAt(s, i) ==
  /\ i >= 1
  /\ i + 2 <= Len(s)
  /\ s[i] = BT /\ s[i + 1] = BT /\ s[i + 2] = BT

\* The position after the greedy run [\w]* that starts at position i.
RECURSIVE SkipWord(_, _)
SkipWord(s, i) ==
  IF i <= Len(s) /\ IsWord(s[i]) THEN SkipWord(s, i + 1) ELSE i

\* A plausible slip: a greedy group ([\s\S]*), which runs to the last fence.
RECURSIVE LastFenceBefore(_, _, _)
LastFenceBefore(s, i, k) ==
  IF k < i THEN 0
  ELSE IF FenceAt(s, k) THEN k
  ELSE LastFenceBefore(s, i, k - 1)

NextFence_Greedy(s, i) == LastFenceBefore(s, i, Len(s) - 2)

\* The first position k >= i with a fence, or 0: where the lazy group
\* ([\s\S]*?) stops.
RECURSIVE NextFence(_, _)
NextFence(s, i) ==
  IF i + 2 > Len(s) THEN 0
  ELSE IF FenceAt(s, i) THEN i
  ELSE NextFence(s, i + 1)

NoMatch == [found |-> FALSE, group |-> <<>>, end |-> 0]

\* One attempt of /```[\w]*\n([\s\S]*?)```/ anchored at position i.
MatchAt(s, i) ==
  IF ~FenceAt(s, i) THEN NoMatch
  ELSE LET j == SkipWord(s, i + 3)
       IN IF ~(j <= Len(s) /\ s[j] = NL) THEN NoMatch
          ELSE LET k == NextFence(s, j + 1)
               IN IF k = 0 THEN NoMatch
                  ELSE [found |-> TRUE,
                        group |-> SubText(s, j + 1, k - 1),
                        end   |-> k + 3]

\* content.matchAll(codeBlockRegex): the capture groups of the successive
\* leftmost matches, the search resuming after each match.
RECURSIVE MatchAll(_, _)
MatchAll(s, i) ==
  IF i > Len(s) THEN <<>>
  ELSE LET m == MatchAt(s, i)
       IN IF m.found
            THEN <<m.group>> \o MatchAll(s, m.end)
            ELSE MatchAll(s, i + 1)

RECURSIVE MapTrim(_)
MapTrim(groups) ==
  IF groups = <<>> THEN <<>>
  ELSE <<Trim(Head(groups))>> \o MapTrim(Tail(groups))

\* formatResponse, lines 87-95: the code extractor applied to a text.
ExtractCode(content) ==
  LET matches == MatchAll(content, 1)
  IN IF Len(matches) > 0
       THEN Join(MapTrim(matches), <<NL, NL>>)
       ELSE content

(***************************************************************************)
(* mistral.ts: CompletionResponseSchema.  A reply body is described by the *)
(* JavaScript type of each of its fields ("undefined" for a missing one)   *)
(* and by its list of choices; only content carries a text.                *)
(***************************************************************************)
TopFields == <<"id", "object", "created", "model", "choices", "usage">>
UsageFields == <<"prompt_tokens", "completion_tokens", "total_tokens">>
ChoiceFields == <<"index", "message", "role", "content", "finish_reason">>

Expected ==
  [id |-> "string", object |-> "string", created |-> "number",
   model |-> "string", choices |-> "array", usage |-> "object",
   prompt_tokens |-> "number", completion_tokens |-> "number",
   total_tokens |-> "number",
   index |-> "number", message |-> "object", role |-> "string",
   content |-> "string", finish_reason |-> "string"]

Range(seq) == {seq[i] : i \in 1..Len(seq)}
BodyFields == Range(TopFields) \cup Range(UsageFields)

\* One zod issue of code invalid_type, rendered as in ZodError.message.
Issue(path, expected, received) ==
  IF received = Undefined
    THEN "[" \o path \o ": Required]"
    ELSE "[" \o path \o ": Expected " \o expected \o ", received " \o received \o "]"

\* The issues of the fields named in fields, in schema order; optional
\* fields accept undefined.
RECURSIVE FieldIssues(_, _, _, _)
FieldIssues(types, fields, prefix, optional) ==
  IF fields = <<>> THEN ""
  ELSE LET f == Head(fields)
           rest == FieldIssues(types, Tail(fields), prefix, optional)
       IN IF types[f] = Expected[f] \/ (f \in optional /\ types[f] = Undefined)
            THEN rest
            ELSE Issue(prefix \o f, Expected[f], types[f]) \o rest

\* z.object({index, message: z.object({role, content}), finish_reason?})
ChoiceIssues(choice, i) ==
  LET prefix == "choices." \o ToString(i - 1) \o "."
  IN FieldIssues(choice, <<"index", "message">>, prefix, {})
     \o (IF choice.message = "object"
           THEN FieldIssues(choice, <<"role", "content">>, prefix \o "message.", {})
           ELSE "")
     \o FieldIssues(choice, <<"finish_reason">>, prefix, {"finish_reason"})

RECURSIVE ChoicesIssues(_, _)
ChoicesIssues(choices, i) ==
  IF i > Len(choices) THEN ""
  ELSE ChoiceIssues(choices[i], i) \o ChoicesIssues(choices, i + 1)

\* A plausible slip: usage.total_tokens is left out of the schema.
SchemaIssues_NoTotalTokens(data) ==
  FieldIssues(data.types, TopFields, "", {})
  \o (IF data.types.choices = "array" THEN ChoicesIssues(data.choices, 1) ELSE "")
  \o (IF data.types.usage = "object"
        THEN FieldIssues(data.types, <<"prompt_tokens", "completion_tokens">>, "usage.", {})
        ELSE "")

\* All issues CompletionResponseSchema finds in data; "" when it conforms.
SchemaIssues(data) ==
  FieldIssues(data.types, TopFields, "", {})
  \o (IF data.types.choices = "array" THEN ChoicesIssues(data.choices, 1) ELSE "")
  \o (IF data.types.usage = "object"
        THEN FieldIssues(data.types, UsageFields, "usage.", {})
        ELSE "")

(***************************************************************************)
(* The reply bodies the upstream can send.                                 *)
(***************************************************************************)
GoodTypes == [f \in BodyFields |-> Expected[f]]
WrongType(t) == IF t = "string" THEN "number" ELSE "string"

Choice(text) ==
  [index |-> "number", message |-> "object", role |-> "string",
   content |-> "string", finish_reason |-> "string", text |-> text]

\* Model outputs: prose only, and prose around one fenced block.
PlainText == <<"a", SP, "b">>
FencedText == <<"x", SP, BT, BT, BT, "j", "s", NL, "a", NL, BT, BT, BT, SP, "y">>
Contents == {PlainText, FencedText}

\* Lists of at most n well-formed choices; the first one carries the text
\* and has its optional finish_reason or not.
ChoiceLists(n) ==
  {<<>>} \cup
  {[i \in 1..k |-> IF i = 1 THEN [Choice(t) EXCEPT !.finish_reason = fr]
                            ELSE Choice(PlainText)] :
     k \in 1..n, t \in Contents, fr \in {"string", Undefined}}

ValidBodies == {[types |-> GoodTypes, choices |-> cs] : cs \in ChoiceLists(MaxChoices)}

RequiredChoiceFields == {"index", "message", "role", "content"}

\* Bodies with exactly one required field missing or of the wrong type, or
\* with a finish_reason of the wrong type.
InvalidBodies ==
  UNION {{[types |-> [GoodTypes EXCEPT ![f] = t], choices |-> <<Choice(FencedText)>>] :
            t \in {Undefined, "string", "number"} \ {Expected[f]}} :
         f \in BodyFields}
  \cup
  UNION {{[types |-> GoodTypes, choices |-> <<[Choice(FencedText) EXCEPT ![f] = t]>>] :
            t \in {Undefined, "string", "number"} \ {Expected[f]}} :
         f \in RequiredChoiceFields}
  \cup
  {[types |-> GoodTypes,
    choices |-> <<[Choice(FencedText) EXCEPT !.finish_reason = "number"]>>]}

(***************************************************************************)
(* Errors and results.  An error is its class name, its message and, for   *)
(* an AxiosError, what error.response carries.  A result is either a       *)
(* returned value or a thrown error.                                       *)
(***************************************************************************)
NoData == [types |-> [f \in BodyFields |-> Undefined], choices |-> <<>>]

MkError(name, message) ==
  [name |-> name, message |-> message, hasResponse |-> FALSE,
   status |-> Undefined, errorMessage |-> Undefined]

NoError == MkError("", "")

Return(data) == [ok |-> TRUE, value |-> data, error |-> NoError]
Throw(error) == [ok |-> FALSE, value |-> NoData, error |-> error]

\* CompletionResponseSchema.parse(response.data)
CompletionResponseSchema_parse(data) ==
  LET issues == SchemaIssues(data)
  IN IF issues = "" THEN Return(data) ELSE Throw(MkError("ZodError", issues))

(***************************************************************************)
(* What awaiting client.post(...) can settle to.                           *)
(***************************************************************************)
\* A 2xx reply with the given body.
Resolved(data) ==
  [settled |-> "resolved", data |-> data, error |-> NoError]

\* A reply with an error status: axios rejects with an AxiosError that has
\* a response; errorMessage is response.data.error.message.
RejectedStatus(status, errorMessage) ==
  [settled |-> "rejected", data |-> NoData,
   error |-> [name |-> "AxiosError",
              message |-> "Request failed with status code " \o status,
              hasResponse |-> TRUE,
              status |-> status, errorMessage |-> errorMessage]]

\* No reply at all (connection failure, or the timeout of 30000 ms): an
\* AxiosError without a response.
RejectedNoResponse(message) ==
  [settled |-> "rejected", data |-> NoData,
   error |-> [name |-> "AxiosError", message |-> message,
              hasResponse |-> FALSE,
              status |-> Undefined, errorMessage |-> Undefined]]

\* JSON.stringify(error.response?.data)
StringifyResponseData(error) ==
  IF ~error.hasResponse THEN Undefined
  ELSE IF error.errorMessage = Undefined THEN "{}"
  ELSE "{error:{message:" \o error.errorMessage \o "}}"

\* a || b on strings: the empty string is falsy, as is undefined.
Falsy(v) == v = Undefined \/ v = ""
OrElse(a, b) == IF Falsy(a) THEN b ELSE a


(***************************************************************************)
(* mistral.ts: class MistralAPI.  An async method is modelled by two       *)
(* operators: the request it dispatches, and what it settles to once       *)
(* client.post has settled.                                                *)
(***************************************************************************)
\* constructor: the guard on the key; a key is its characters.
constructor_throws(apiKey) ==
  ~apiKey.present \/ Len(apiKey.chars) = 0 \/ Len(Trim(apiKey.chars)) = 0

\* A plausible slip: || in place of ??, which also replaces 0.
Nullish_Or(a, b) == IF a = Undefined \/ a = "0" \/ a = "" THEN b ELSE a

\* a ?? b.  Numbers are written as their decimal strings.
Nullish(a, b) == IF a = Undefined THEN b ELSE a

\* chatCompletion, lines 128-138.  enforceRateLimit is not called on this
\* path (it has no caller at all), so nothing precedes client.post.
chatCompletion_request(options) ==
  LET model == OrElse(options.model, MISTRAL_MODELS.CODESTRAL)
  IN [client |-> getClient(model),
      path   |-> "/chat/completions",
      body   |-> [model       |-> model,
                  temperature |-> Nullish(options.temperature, "0.7"),
                  top_p       |-> Nullish(options.top_p, "1"),
                  max_tokens  |-> Nullish(options.max_tokens, "1000")]]

\* A plausible slip: 429 is not told apart from the other statuses.
chatCompletion_catch_No429(error) ==
  IF error.name = "AxiosError"
    THEN LET status == error.status
             message == OrElse(error.errorMessage, error.message)
         IN CASE status = "401" ->
                   Throw(MkError("Error", "Authentication failed. Please check your API key."))
              [] status = "500" ->
                   Throw(MkError("Error", "Mistral API server error. Please try again later."))
              [] OTHER ->
                   Throw(MkError("Error", "Mistral API error (" \o status \o "): " \o message))
    ELSE Throw(error)

\* chatCompletion, lines 142-159: the catch block.
chatCompletion_catch(error) ==
  IF error.name = "AxiosError"
    THEN LET status == error.status
             message == OrElse(error.errorMessage, error.message)
         IN CASE status = "401" ->
                   Throw(MkError("Error", "Authentication failed. Please check your API key."))
              [] status = "429" ->
                   Throw(MkError("Error", "Rate limit exceeded. Please try again later."))
              [] status = "500" ->
                   Throw(MkError("Error", "Mistral API server error. Please try again later."))
              [] OTHER ->
                   Throw(MkError("Error", "Mistral API error (" \o status \o "): " \o message))
    ELSE Throw(error)

\* A plausible slip: a failure is answered with an empty completion.
DefaultCompletion == [types |-> GoodTypes, choices |-> <<Choice(<<>>)>>]

chatCompletion_settle_Default(outcome) ==
  IF outcome.settled = "resolved"
    THEN LET validatedResponse == CompletionResponseSchema_parse(outcome.data)
         IN IF validatedResponse.ok
              THEN validatedResponse
              ELSE Return(DefaultCompletion)
    ELSE Return(DefaultCompletion)

\* chatCompletion, lines 140-159: after client.post has settled.
chatCompletion_settle(outcome) ==
  IF outcome.settled = "resolved"
    THEN LET validatedResponse == CompletionResponseSchema_parse(outcome.data)
         IN IF validatedResponse.ok
              THEN validatedResponse
              ELSE chatCompletion_catch(validatedResponse.error)
    ELSE chatCompletion_catch(outcome.error)

\* fimCompletion, lines 179-192.
fimCompletion_request(prompt, options) ==
  [client |-> codestralClient,
   path   |-> "/fim/completions",
   body   |-> [model       |-> MISTRAL_MODELS.CODESTRAL,
               temperature |-> Nullish(options.temperature, "0"),
               top_p       |-> Nullish(options.top_p, "1"),
               max_tokens  |-> Nullish(options.max_tokens, "1000")]]

\* fimCompletion, lines 202-233: the catch block.
fimCompletion_catch(error) ==
  IF error.name = "AxiosError"
    THEN LET status == error.status
             message == OrElse(error.errorMessage, error.message)
         IN CASE status = "401" ->
                   Throw(MkError("Error", "Authentication failed. Please check your API key."))
              [] status = "429" ->
                   Throw(MkError("Error", "Rate limit exceeded. Please try again later."))
              [] status = "500" ->
                   Throw(MkError("Error", "Mistral API server error. Please try again later."))
              [] OTHER ->
                   Throw(MkError("Error",
                     "Mistral API error (" \o status \o "): " \o message
                     \o "\nResponse: " \o StringifyResponseData(error)))
    ELSE Throw(MkError("Error",
           "Unexpected error during FIM completion: " \o error.message))

\* fimCompletion, lines 200-233: after client.post has settled.
fimCompletion_settle(outcome) ==
  IF outcome.settled = "resolved"
    THEN LET validatedResponse == CompletionResponseSchema_parse(outcome.data)
         IN IF validatedResponse.ok
              THEN validatedResponse
              ELSE fimCompletion_catch(validatedResponse.error)
    ELSE fimCompletion_catch(outcome.error)

\* validateApiKey, lines 95-98: the probe it sends through chatCompletion.
validateApiKey_request ==
  chatCompletion_request([model |-> Undefined, temperature |-> Undefined,
                          top_p |-> Undefined, max_tokens |-> "1"])

\* validateApiKey, lines 99-114: given what chatCompletion settled to.
\* chatCompletion has already replaced every AxiosError by a plain Error.
validateApiKey_settle(chat) ==
  IF chat.ok THEN chat
  ELSE IF chat.error.name = "AxiosError"
    THEN IF chat.error.status = "401"
           THEN Throw(MkError("Error",
                  "Invalid API key. Please check your Codestral API key."))
           ELSE Throw(MkError("Error",
                  "API validation failed: " \o chat.error.message))
    ELSE Throw(chat.error)

(***************************************************************************)
(* The server (part_000): schemas of the tool arguments, formatResponse    *)
(* and the two tool handlers.                                              *)
(***************************************************************************)
EnumIssue(received) == "[model: Invalid enum value, received " \o received \o "]"

\* ChatSchema.parse(args), as far as the model option goes.
ChatSchema_parse(args) ==
  IF args.model = Undefined \/ args.model \in GeneralModels
    THEN Return(NoData)
    ELSE Throw(MkError("ZodError", EnumIssue(args.model)))

\* CodeCompletionSchema.parse(args), as far as the model option goes.
CodeCompletionSchema_parse(args) ==
  IF args.model = Undefined \/ args.model \in CodeModels
    THEN Return(NoData)
    ELSE Throw(MkError("ZodError", EnumIssue(args.model)))

\* formatResponse, lines 80-96.
formatResponse(completion) ==
  IF Len(completion.choices) = 0
    THEN [ok |-> FALSE, text |-> <<>>,
          error |-> MkError("Error", "Invalid completion response")]
    ELSE [ok |-> TRUE, text |-> ExtractCode(completion.choices[1].text),
          error |-> NoError]

\* What a handler returns to the client: content[0].text is message
\* followed by code (at most one of them is not empty).
NoText == <<>>
ToolResult(isError, message, code) ==
  [isError |-> isError, message |-> message, code |-> code, thrown |-> FALSE]
NoResult == [isError |-> FALSE, message |-> "", code |-> NoText, thrown |-> FALSE]

\* What the invocation wrote with fs.writeFile.
NoWrite == [path |-> Undefined, text |-> NoText]

\* The requests the chat handler dispatches, lines 239-248.
chat_requests(args) ==
  IF ChatSchema_parse(args).ok
    THEN <<chatCompletion_request(
             [model       |-> OrElse(args.model, MISTRAL_MODELS.MISTRAL_LARGE),
              temperature |-> args.temperature,
              top_p       |-> args.top_p,
              max_tokens  |-> args.max_tokens])>>
    ELSE <<>>

\* The chat handler after chatCompletion has settled, lines 250-273.
chat_finish(completion) ==
  IF ~completion.ok
    THEN ToolResult(TRUE, "Error: " \o completion.error.message, NoText)
  ELSE IF Len(completion.value.choices) = 0
    \* completion.choices[0] is undefined: reading .message throws a TypeError
    THEN ToolResult(TRUE,
           "Error: Cannot read properties of undefined (reading 'message')", NoText)
    ELSE ToolResult(FALSE, "", completion.value.choices[1].text)

\* A plausible slip: fim without a suffix falls back to the chat path.
code_completion_requests_FimNeedsSuffix(args) ==
  IF ~CodeCompletionSchema_parse(args).ok THEN <<>>
  ELSE IF args.task = "fim" /\ ~Falsy(args.suffix)
    THEN <<fimCompletion_request(args.code,
            [suffix      |-> args.suffix,
             temperature |-> args.temperature,
             top_p       |-> args.top_p,
             max_tokens  |-> args.max_tokens])>>
    ELSE <<chatCompletion_request(
            [model       |-> args.model,
             temperature |-> args.temperature,
             top_p       |-> args.top_p,
             max_tokens  |-> args.max_tokens])>>

\* The requests the code_completion handler dispatches, lines 278-308.
code_completion_requests(args) ==
  IF ~CodeCompletionSchema_parse(args).ok THEN <<>>
  ELSE IF args.task = "fim"
    THEN <<fimCompletion_request(args.code,
            [suffix      |-> args.suffix,
             temperature |-> args.temperature,
             top_p       |-> args.top_p,
             max_tokens  |-> args.max_tokens])>>
    ELSE <<chatCompletion_request(
            [model       |-> args.model,
             temperature |-> args.temperature,
             top_p       |-> args.top_p,
             max_tokens  |-> args.max_tokens])>>

\* What the upstream call of the code_completion handler settles to.
code_completion_settle(args, outcome) ==
  IF args.task = "fim"
    THEN fimCompletion_settle(outcome)
    ELSE chatCompletion_settle(outcome)

\* The code_completion handler after the upstream call has settled, lines
\* 309-364.  writeOk: whether fs.mkdir and fs.writeFile succeed.
code_completion_finish(args, completion, writeOk) ==
  IF ~completion.ok
    THEN [result |-> ToolResult(TRUE, "Error: " \o completion.error.message, NoText),
          written |-> NoWrite]
  ELSE LET formattedResponse == formatResponse(completion.value)
       IN IF ~formattedResponse.ok
            THEN [result |-> ToolResult(TRUE,
                     "Error: " \o formattedResponse.error.message, NoText),
                  written |-> NoWrite]
          ELSE IF ~Falsy(args.outputPath) /\ ~writeOk
            THEN [result |-> ToolResult(TRUE,
                     "Error saving to file: EACCES: permission denied", NoText),
                  written |-> NoWrite]
          ELSE IF ~Falsy(args.outputPath) /\ args.streamToFile
            THEN [result |-> ToolResult(FALSE,
                     "Successfully saved to " \o args.outputPath, NoText),
                  written |-> [path |-> args.outputPath,
                               text |-> formattedResponse.text]]
          ELSE [result |-> ToolResult(FALSE, "", formattedResponse.text),
                written |-> IF Falsy(args.outputPath) THEN NoWrite
                            ELSE [path |-> args.outputPath,
                                  text |-> formattedResponse.text]]


(***************************************************************************)
(* Inputs drawn by the actions.                                            *)
(***************************************************************************)
\* MISTRAL_API_KEY of the environment: unset, empty, blank, or a key with
\* or without surrounding blanks.
ApiKeys ==
  {[present |-> FALSE, chars |-> <<>>]} \cup
  {[present |-> TRUE, chars |-> c] :
     c \in {<<>>, <<SP, SP>>, <<"s", "1">>, <<SP, "s", "1", NL>>}}

\* error.response.data.error.message of an error reply: absent, empty, given.
ErrorMessages == {Undefined, "", "quota exceeded"}
OtherStatuses == {"400"}
Statuses == {"401", "429", "500"} \cup OtherStatuses

Outcomes ==
  {Resolved(b) : b \in ValidBodies \cup InvalidBodies}
  \cup {RejectedStatus(st, m) : st \in Statuses, m \in ErrorMessages}
  \cup {RejectedNoResponse("timeout of 30000ms exceeded")}

NoOutcome == [settled |-> "pending", data |-> NoData, error |-> NoError]

ToolNames == {"chat", "code_completion", "read_file"}
Tasks == {"complete", "fix", "test", "fim"}
ModelArgs == MistralModel \cup {Undefined, "gpt-4"}

MkArgs(task, model, suffix, outputPath, streamToFile) ==
  [code |-> "def add(a, b):", task |-> task, model |-> model, suffix |-> suffix,
   outputPath |-> outputPath, streamToFile |-> streamToFile,
   temperature |-> Undefined, top_p |-> Undefined, max_tokens |-> Undefined]

ChatArgs == {MkArgs(Undefined, m, Undefined, Undefined, FALSE) : m \in ModelArgs}
CodeCompletionArgs ==
  {MkArgs(t, m, sfx, out, stf) :
     t \in Tasks, m \in ModelArgs, sfx \in {Undefined, "return a + b"},
     out \in {Undefined, "out/add.py"}, stf \in BOOLEAN}

ArgsOf(name) ==
  IF name = "chat" THEN ChatArgs
  ELSE IF name = "code_completion" THEN CodeCompletionArgs
  ELSE {MkArgs(Undefined, Undefined, Undefined, Undefined, FALSE)}

(***************************************************************************)
(* State.                                                                  *)
(***************************************************************************)
VARIABLES
  pc,               \* where the process is: init, probing, connecting,
                    \* serving, exited
  now,              \* Date.now(), in milliseconds
  lastRequestTime,  \* MistralAPI.lastRequestTime
  lastDispatch,     \* when the last request was dispatched
  startup,          \* the startup key check: requests sent, what came back
  exit,             \* why the process exited
  cur,              \* the tool invocation being handled, or the last one
  pacer,            \* the callers of enforceRateLimit and what they recorded
  call              \* a single function under examination: input, output

vars == <<pc, now, lastRequestTime, lastDispatch, startup, exit, cur, pacer, call>>

NoTime == 0 - 1
minRequestInterval == 100

NoExit == [site |-> "", error |-> NoError]
NoArgs == MkArgs(Undefined, Undefined, Undefined, Undefined, FALSE)
NoInvocation ==
  [phase |-> "none", name |-> "", args |-> NoArgs, sent |-> <<>>,
   outcome |-> NoOutcome, result |-> NoResult, written |-> NoWrite]

\* Nobody is in enforceRateLimit and nothing was recorded.
Callers == 1..NumCallers
NoPacer == [waking |-> [c \in Callers |-> NoTime], stamps |-> <<>>]
NoCall == [fn |-> "", in |-> <<>>, out |-> <<>>]

\* The server before its first statement.
ServerInit ==
  /\ pc = "init"
  /\ lastDispatch = NoTime
  /\ startup = [sent |-> <<>>, outcome |-> NoOutcome]
  /\ exit = NoExit
  /\ cur = NoInvocation

Init ==
  /\ ServerInit
  /\ now = 0
  /\ lastRequestTime = 0
  /\ pacer = NoPacer
  /\ call = NoCall

\* client.post is entered: the request leaves at the current time.
Dispatched == lastDispatch' = now

\* part_000, line 18: envSchema.parse(process.env), z.string().min(1).
envSchema_throws(apiKey) == ~apiKey.present \/ Len(apiKey.chars) < 1

\* A plausible slip: the server is started although the key check failed.
startup_next_Lenient(validated) == "connecting"

\* part_000, lines 23-31: where the process goes once validateApiKey has
\* settled: on to main(), or process.exit(1) in the catch block.
startup_next(validated) == IF validated.ok THEN "connecting" ELSE "exited"

(***************************************************************************)
(* Actions.                                                                *)
(***************************************************************************)
\* part_000, lines 11-26 up to the await inside validateApiKey.
Startup(apiKey) ==
  /\ pc = "init"
  /\ IF envSchema_throws(apiKey)
       THEN /\ pc' = "exited"
            /\ exit' = [site |-> "uncaught", error |-> MkError("ZodError", "[MISTRAL_API_KEY: Required]")]
            /\ UNCHANGED <<startup, lastDispatch>>
     ELSE IF constructor_throws(apiKey)
       THEN /\ pc' = "exited"
            /\ exit' = [site |-> "startup", error |-> MkError("Error", "API key cannot be empty")]
            /\ UNCHANGED <<startup, lastDispatch>>
     ELSE /\ pc' = "probing"
          /\ startup' = [startup EXCEPT !.sent = <<validateApiKey_request>>]
          /\ Dispatched
          /\ UNCHANGED exit
  /\ UNCHANGED <<now, lastRequestTime, cur>>
  /\ UNCHANGED <<pacer, call>>

\* The probe of validateApiKey settles; part_000, lines 26-31.
ProbeSettles(outcome) ==
  /\ pc = "probing"
  /\ LET validated == validateApiKey_settle(chatCompletion_settle(outcome))
     IN /\ pc' = startup_next(validated)
        /\ exit' = IF validated.ok THEN exit
                   ELSE [site |-> "startup", error |-> validated.error]
  /\ startup' = [startup EXCEPT !.outcome = outcome]
  /\ UNCHANGED <<now, lastRequestTime, lastDispatch, cur>>
  /\ UNCHANGED <<pacer, call>>

\* main(), part_000, lines 384-393: server.connect succeeds or throws.
Connect(ok) ==
  /\ pc = "connecting"
  /\ IF ok
       THEN pc' = "serving" /\ UNCHANGED exit
       ELSE /\ pc' = "exited"
            /\ exit' = [site |-> "main", error |-> MkError("Error", "connect failed")]
  /\ UNCHANGED <<now, lastRequestTime, lastDispatch, startup, cur>>
  /\ UNCHANGED <<pacer, call>>

\* The server takes one tool invocation at a time in this model.
AcceptsToolCalls == pc = "serving" /\ cur.phase = "none"

\* The CallTool handler up to its await: part_000, lines 234-248 (chat),
\* 276-308 (code_completion), 367 (any other name).
CallTool(name, args) ==
  /\ AcceptsToolCalls
  /\ LET sent == IF name = "chat" THEN chat_requests(args)
                 ELSE IF name = "code_completion" THEN code_completion_requests(args)
                 ELSE <<>>
         invalid ==
           IF name = "chat"
             THEN ToolResult(TRUE, "Error: " \o ChatSchema_parse(args).error.message, NoText)
           ELSE IF name = "code_completion"
             THEN ToolResult(TRUE, "Error: " \o CodeCompletionSchema_parse(args).error.message, NoText)
           ELSE [ToolResult(TRUE, "Unknown tool: " \o name, NoText) EXCEPT !.thrown = TRUE]
     IN IF sent = <<>>
          THEN /\ cur' = [phase |-> "done", name |-> name, args |-> args, sent |-> sent,
                          outcome |-> NoOutcome, result |-> invalid, written |-> NoWrite]
               /\ UNCHANGED lastDispatch
          ELSE /\ cur' = [phase |-> "awaiting", name |-> name, args |-> args, sent |-> sent,
                          outcome |-> NoOutcome, result |-> NoResult, written |-> NoWrite]
               /\ Dispatched
  /\ UNCHANGED <<pc, now, lastRequestTime, startup, exit>>
  /\ UNCHANGED <<pacer, call>>

\* The upstream call of the invocation settles and the handler runs to its
\* end: part_000, lines 250-273 (chat), 309-364 (code_completion).
ToolSettles(outcome, writeOk) ==
  /\ pc = "serving"
  /\ cur.phase = "awaiting"
  /\ IF cur.name = "chat"
       THEN cur' = [cur EXCEPT !.phase = "done", !.outcome = outcome,
                               !.result = chat_finish(chatCompletion_settle(outcome))]
       ELSE LET end == code_completion_finish(cur.args,
                         code_completion_settle(cur.args, outcome), writeOk)
            IN cur' = [cur EXCEPT !.phase = "done", !.outcome = outcome,
                                  !.result = end.result, !.written = end.written]
  /\ UNCHANGED <<pc, now, lastRequestTime, lastDispatch, startup, exit>>
  /\ UNCHANGED <<pacer, call>>

\* The transport sends what the handler returned (or the protocol error for
\* what it threw) to the client; the invocation is over.
SendResult ==
  /\ pc = "serving"
  /\ cur.phase = "done"
  /\ cur' = NoInvocation
  /\ UNCHANGED <<pc, now, lastRequestTime, lastDispatch, startup, exit>>
  /\ UNCHANGED <<pacer, call>>

\* Time passes.
Tick ==
  /\ pc # "exited"
  /\ now + TickMs <= MaxTicks * TickMs
  /\ now' = now + TickMs
  /\ UNCHANGED <<pc, lastRequestTime, lastDispatch, startup, exit, cur>>
  /\ UNCHANGED <<pacer, call>>

Next ==
  \/ \E apiKey \in ApiKeys : Startup(apiKey)
  \/ \E outcome \in Outcomes : ProbeSettles(outcome)
  \/ \E ok \in BOOLEAN : Connect(ok)
  \/ \E name \in ToolNames : \E args \in ArgsOf(name) : CallTool(name, args)
  \/ \E outcome \in Outcomes : \E writeOk \in BOOLEAN : ToolSettles(outcome, writeOk)
  \/ SendResult
  \/ Tick

Spec == Init /\ [][Next]_vars

TypeOK ==
  /\ pc \in {"init", "probing", "connecting", "serving", "exited"}
  /\ now \in 0..(MaxTicks * TickMs)
  /\ cur.phase \in {"none", "awaiting", "done"}
  /\ Len(cur.sent) <= 1

(***************************************************************************)
(* Vocabulary of the properties.                                           *)
(***************************************************************************)
Done == cur.phase = "done"
Requests == Range(startup.sent) \cup Range(cur.sent)

\* A request leaves in this step.
DispatchStep ==
  \/ startup'.sent # startup.sent
  \/ cur'.phase = "awaiting" /\ cur.phase # "awaiting"

\* The upstream answered with an error status.
GotStatus(outcome) == outcome.settled = "rejected" /\ outcome.error.hasResponse
\* The upstream did not answer at all.
GotNoResponse(outcome) == outcome.settled = "rejected" /\ ~outcome.error.hasResponse

\* A reply that misses or mistypes a required field.
MissingOrMistyped(data) ==
  \/ \E f \in Range(TopFields) : data.types[f] # Expected[f]
  \/ data.types.usage = "object"
       /\ \E f \in Range(UsageFields) : data.types[f] # Expected[f]
  \/ data.types.choices = "array"
       /\ \E i \in 1..Len(data.choices) :
            \/ data.choices[i].index # "number"
            \/ data.choices[i].message # "object"
            \/ data.choices[i].role # "string"
            \/ data.choices[i].content # "string"

GotInvalidShape(outcome) ==
  outcome.settled = "resolved" /\ MissingOrMistyped(outcome.data)

UpstreamFailed(outcome) ==
  GotStatus(outcome) \/ GotNoResponse(outcome) \/ GotInvalidShape(outcome)

\* The text of an error result that follows the template of the default
\* branch, "Mistral API error (<status>): <message>", with or without the
\* response details fimCompletion appends.
OtherStatusTexts(error, message) ==
  LET head == "Error: Mistral API error (" \o error.status \o "): " \o message
  IN {head, head \o "\nResponse: " \o StringifyResponseData(error)}

(***************************************************************************)
(* C1: every two consecutive dispatches of an upstream request are at      *)
(* least 100 ms apart: whenever a request leaves and one was dispatched    *)
(* before, at least minRequestInterval has passed since that one.          *)
(***************************************************************************)
C1_DispatchesSpaced ==
  [][(DispatchStep /\ lastDispatch # NoTime)
       => now - lastDispatch >= minRequestInterval]_vars

(***************************************************************************)
(* C2: a code_completion invocation with task = fim sends its one request  *)
(* to the fill-in-the-middle path of the code-specialized base, and none   *)
(* to a chat-completions path, whatever the other parameters are.          *)
(***************************************************************************)
C2_FimOnlyFimPath ==
  (cur.phase # "none" /\ cur.name = "code_completion" /\ cur.args.task = "fim")
    => /\ \A i \in 1..Len(cur.sent) :
            /\ cur.sent[i].path = "/fim/completions"
            /\ cur.sent[i].client.baseURL = CODESTRAL_API_BASE
       /\ (cur.args.model \in CodeModels \cup {Undefined}) => Len(cur.sent) = 1

C2_Witness ==
  /\ Done /\ cur.name = "code_completion" /\ cur.args.task = "fim"
  /\ cur.args.model = MISTRAL_MODELS.CODESTRAL_MAMBA
  /\ cur.args.suffix = Undefined
  /\ Len(cur.sent) = 1

(***************************************************************************)
(* C3: every request goes to the base of the capability class of the model *)
(* its body names; the chat tool never reaches the code-specialized base   *)
(* and code_completion never the general-purpose base; an absent model in  *)
(* chatCompletion goes to the code-specialized base; a model outside the   *)
(* tool's allowed set is rejected before any request is sent.              *)
(***************************************************************************)
C3_RoutedByClass ==
  /\ CodeModels \cap GeneralModels = {}
  /\ \A req \in Requests :
       /\ req.body.model \in CodeModels => req.client.baseURL = CODESTRAL_API_BASE
       /\ req.body.model \in GeneralModels => req.client.baseURL = MISTRAL_API_BASE
       /\ req.body.model \in MistralModel
  /\ \A req \in Range(startup.sent) : req.client.baseURL = CODESTRAL_API_BASE
  /\ cur.name = "chat" =>
       /\ \A req \in Range(cur.sent) : req.client.baseURL = MISTRAL_API_BASE
       /\ (cur.args.model \notin GeneralModels \cup {Undefined})
            => cur.sent = <<>> /\ cur.result.isError
  /\ cur.name = "code_completion" =>
       /\ \A req \in Range(cur.sent) : req.client.baseURL = CODESTRAL_API_BASE
       /\ (cur.args.model \notin CodeModels \cup {Undefined})
            => cur.sent = <<>> /\ cur.result.isError

C3_Witness ==
  /\ cur.phase = "awaiting" /\ cur.name = "code_completion"
  /\ cur.args.task = "fix"
  /\ cur.args.model = MISTRAL_MODELS.CODESTRAL_MAMBA
  /\ cur.sent[1].body.model = MISTRAL_MODELS.CODESTRAL_MAMBA
  /\ cur.sent[1].client.baseURL = CODESTRAL_API_BASE

(***************************************************************************)
(* C4: when the probe of the startup key check is answered with 401, the   *)
(* error raised at startup is the credential-configuration error           *)
(* "Invalid API key. ...", not the runtime authentication error.           *)
(***************************************************************************)
C4_Startup401IsCredentialError ==
  (GotStatus(startup.outcome) /\ startup.outcome.error.status = "401")
    => /\ exit.error.message = "Invalid API key. Please check your Codestral API key."
       /\ exit.error.message # "Authentication failed. Please check your API key."

(***************************************************************************)
(* C5: for chatCompletion and fimCompletion alike, status 401 yields the   *)
(* authentication-failed error, 429 the rate-limited error, 500 the        *)
(* upstream-server error, and any other status an error with that status   *)
(* and the upstream's error message when it gave one (a non-empty one),    *)
(* the generic failure message otherwise.                                  *)
(***************************************************************************)
C5_StatusDecidesError ==
  (Done /\ GotStatus(cur.outcome))
    => LET error == cur.outcome.error
           shown == IF error.errorMessage \in {Undefined, ""}
                      THEN "Request failed with status code " \o error.status
                      ELSE error.errorMessage
       IN /\ cur.result.isError
          /\ CASE error.status = "401" ->
                    cur.result.message = "Error: Authentication failed. Please check your API key."
               [] error.status = "429" ->
                    cur.result.message = "Error: Rate limit exceeded. Please try again later."
               [] error.status = "500" ->
                    cur.result.message = "Error: Mistral API server error. Please try again later."
               [] OTHER ->
                    cur.result.message \in OtherStatusTexts(error, shown)

C5_Witness ==
  /\ Done /\ cur.name = "code_completion" /\ cur.args.task = "fim"
  /\ GotStatus(cur.outcome)
  /\ cur.outcome.error.status = "400"
  /\ cur.outcome.error.errorMessage = "quota exceeded"
  /\ cur.result.isError

(***************************************************************************)
(* C6: when the upstream does not answer at all, the error raised is a     *)
(* transport-failure error and is not rendered with the template of the    *)
(* 'other status' error.                                                   *)
(***************************************************************************)
C6_NoResponseIsTransportFailure ==
  (Done /\ GotNoResponse(cur.outcome))
    => /\ cur.result.isError
       /\ cur.result.message \notin OtherStatusTexts(cur.outcome.error, cur.outcome.error.message)

(***************************************************************************)
(* C7: for both tools, a well-formed reply with an empty choices list ends *)
(* the invocation with the dedicated empty-choices error.                  *)
(***************************************************************************)
C7_EmptyChoicesError ==
  (Done /\ cur.outcome.settled = "resolved"
        /\ ~MissingOrMistyped(cur.outcome.data)
        /\ cur.outcome.data.choices = <<>>)
    => /\ cur.result.isError
       /\ cur.result.message = "Error: Invalid completion response"

(***************************************************************************)
(* C8: a reply that misses or mistypes a required field ends the           *)
(* invocation with an error result: no text of the reply is returned and   *)
(* nothing is written to outputPath, on the chat path and on the           *)
(* fill-in-the-middle path alike.                                          *)
(***************************************************************************)
C8_InvalidShapeIsError ==
  (Done /\ GotInvalidShape(cur.outcome))
    => /\ cur.result.isError
       /\ cur.result.code = NoText
       /\ cur.written = NoWrite

C8_Witness ==
  /\ Done /\ cur.name = "code_completion" /\ cur.args.task = "fim"
  /\ cur.args.outputPath = "out/add.py"
  /\ cur.outcome.settled = "resolved"
  /\ cur.outcome.data.types.total_tokens = Undefined
  /\ cur.result.isError
  /\ cur.written = NoWrite

C10_OnlyCredentialExits ==
  pc = "exited" =>
    /\ exit.error.message \in {"API key cannot be empty", "[MISTRAL_API_KEY: Required]"}
    /\ ~UpstreamFailed(startup.outcome)

(***************************************************************************)
(* C10, amended: an absent or blank credential ends the process, and so    *)
(* does every upstream error during the startup key check; an upstream     *)
(* error during a tool invocation never does, and the server goes on       *)
(* serving after it.                                                       *)
(***************************************************************************)
C10_StartupErrorsExit ==
  /\ (pc # "init" /\ startup.sent = <<>>) => pc = "exited"
  /\ UpstreamFailed(startup.outcome) => pc = "exited" /\ exit.site = "startup"
  /\ pc = "exited" => exit.site \in {"uncaught", "startup", "main"} /\ cur = NoInvocation
  /\ (Done /\ UpstreamFailed(cur.outcome)) => pc = "serving" /\ exit = NoExit

C10_Witness ==
  /\ pc = "exited"
  /\ GotStatus(startup.outcome) /\ startup.outcome.error.status = "429"
  /\ exit.error.message = "Rate limit exceeded. Please try again later."

(***************************************************************************)
(* The outbound bodies.  The tool handlers are given every combination of  *)
(* the sampling options and the requests they dispatch are recorded; the   *)
(* server itself stays where it is.                                        *)
(***************************************************************************)
Temperatures == {Undefined, "0", "0.3", "0.7", "1"}
TopPs == {Undefined, "0", "0.5", "1"}
MaxTokens == {Undefined, "1", "1000", "4096"}

WithSampling(args) ==
  {[args EXCEPT !.temperature = t, !.top_p = p, !.max_tokens = m] :
     t \in Temperatures, p \in TopPs, m \in MaxTokens}

\* Arguments the schemas accept, with every choice of sampling options.
ChatBodyArgs ==
  UNION {WithSampling(a) : a \in {x \in ChatArgs : ChatSchema_parse(x).ok}}
CodeCompletionBodyArgs ==
  UNION {WithSampling(a) :
           a \in {x \in CodeCompletionArgs :
                    /\ CodeCompletionSchema_parse(x).ok
                    /\ x.outputPath = Undefined /\ ~x.streamToFile}}

ServerUnchanged == UNCHANGED <<pc, now, lastRequestTime, lastDispatch, startup, exit, cur>>

\* The chat handler builds its request: part_000, lines 239-248.
BuildChat(args) ==
  /\ call = NoCall
  /\ call' = [fn |-> "chat", in |-> args, out |-> chat_requests(args)]
  /\ ServerUnchanged /\ UNCHANGED pacer

\* The code_completion handler builds its request: part_000, lines 278-308.
BuildCodeCompletion(args) ==
  /\ call = NoCall
  /\ call' = [fn |-> "code_completion", in |-> args,
              out |-> code_completion_requests(args)]
  /\ ServerUnchanged /\ UNCHANGED pacer

\* validateApiKey builds its probe: mistral.ts, lines 95-98.
BuildProbe ==
  /\ call = NoCall
  /\ call' = [fn |-> "validateApiKey", in |-> NoArgs, out |-> <<validateApiKey_request>>]
  /\ ServerUnchanged /\ UNCHANGED pacer

NextBody ==
  \/ \E args \in ChatBodyArgs : BuildChat(args)
  \/ \E args \in CodeCompletionBodyArgs : BuildCodeCompletion(args)
  \/ BuildProbe

SpecBody == Init /\ [][NextBody]_vars

Fence == <<BT, BT, BT>>
Pieces == {Fence, <<BT>>, <<NL>>, <<"a">>, <<"-">>}

RECURSIVE TextsOf(_)
TextsOf(n) ==
  IF n = 0 THEN {<<>>}
  ELSE LET shorter == TextsOf(n - 1)
       IN shorter \cup {t \o p : t \in shorter, p \in Pieces}

CompletionOf(text) == [types |-> GoodTypes, choices |-> <<Choice(text)>>]

InitExtract ==
  /\ ServerInit
  /\ now = 0
  /\ lastRequestTime = 0
  /\ pacer = NoPacer
  /\ call \in {[fn |-> "formatResponse", in |-> t, out |-> t, again |-> t, n |-> 0] :
                 t \in TextsOf(MaxPieces)}

\* formatResponse(completion), part_000 lines 80-96, on the text and then on
\* what it returned.
Extract ==
  /\ call.fn = "formatResponse"
  /\ call.n < 2
  /\ call' = IF call.n = 0
               THEN [call EXCEPT !.out = formatResponse(CompletionOf(call.in)).text,
                                 !.n = 1]
               ELSE [call EXCEPT !.again = formatResponse(CompletionOf(call.out)).text,
                                 !.n = 2]
  /\ ServerUnchanged /\ UNCHANGED pacer

NextExtract == Extract

SpecExtract == InitExtract /\ [][NextExtract]_vars

\* The fenced blocks as the claim describes them: an opening fence, an
\* optional language tag of any characters other than blanks and backticks,
\* the end of the line, and the text up to the next fence.
IsTagChar(c) == c \notin (WhiteSpace \cup {BT})

RECURSIVE SkipTag(_, _)
SkipTag(s, i) ==
  IF i <= Len(s) /\ IsTagChar(s[i]) THEN SkipTag(s, i + 1) ELSE i

RECURSIVE NextFenceFrom(_, _)
NextFenceFrom(s, i) ==
  IF i + 2 > Len(s) THEN 0
  ELSE IF FenceAt(s, i) THEN i
  ELSE NextFenceFrom(s, i + 1)

RECURSIVE FencedBlocks(_, _)
FencedBlocks(s, i) ==
  IF i > Len(s) THEN <<>>
  ELSE IF ~FenceAt(s, i) THEN FencedBlocks(s, i + 1)
  ELSE LET j == SkipTag(s, i + 3)
           k == IF j <= Len(s) /\ s[j] = NL THEN NextFenceFrom(s, j + 1) ELSE 0
       IN IF k = 0 THEN FencedBlocks(s, i + 1)
          ELSE <<SubText(s, j + 1, k - 1)>> \o FencedBlocks(s, k + 3)

RECURSIVE TrimAll(_)
TrimAll(blocks) ==
  IF blocks = <<>> THEN <<>> ELSE <<Trim(Head(blocks))>> \o TrimAll(Tail(blocks))

ExpectedExtract(text) ==
  LET blocks == FencedBlocks(text, 1)
  IN IF blocks = <<>> THEN text ELSE Join(TrimAll(blocks), <<NL, NL>>)

(***************************************************************************)
(* C12: the extractor returns the trimmed contents of all fenced blocks of *)
(* the text, in order, joined by a blank line, whatever their language     *)
(* tags are, and the text itself when it has no fenced block.              *)
(***************************************************************************)
C12_ExtractsEveryBlock ==
  (call.fn = "formatResponse" /\ call.n >= 1)
    => call.out = ExpectedExtract(call.in)

(***************************************************************************)
(* C13: the extractor is idempotent: what one extraction returns has no    *)
(* fenced block left, and a second extraction returns it unchanged.        *)
(***************************************************************************)
C13_ExtractIdempotent ==
  /\ (call.fn = "formatResponse" /\ call.n >= 1) => MatchAll(call.out, 1) = <<>>
  /\ (call.fn = "formatResponse" /\ call.n = 2) => call.again = call.out

C13_Witness ==
  /\ call.fn = "formatResponse" /\ call.n = 2
  /\ call.in = Fence \o <<"a", NL, "a", NL>> \o Fence
  /\ call.out = <<"a">>
  /\ call.again = <<"a">>

(***************************************************************************)
(* C14: a code_completion invocation with streamToFile = true whose        *)
(* upstream call succeeds saves the result to a file and returns the       *)
(* success message only, never the generated text, whatever the other      *)
(* parameters are, an absent outputPath included.                          *)
(***************************************************************************)
C14_StreamToFileOnlyMessage ==
  (Done /\ cur.name = "code_completion" /\ cur.args.streamToFile
        /\ ~cur.result.isError)
    => /\ cur.written # NoWrite
       /\ cur.result.code = NoText
       /\ cur.result.message # ""

(***************************************************************************)
(* mistral.ts: createPrompt.  A message content is a sequence of segments: *)
(* the literal parts of the template, the backticks and newlines around    *)
(* the blocks, and the language, the code and the suffix as they are.      *)
(***************************************************************************)
systemPrompts ==
  [complete |-> "You are an expert programmer. Continue or complete the provided code according to best practices.",
   fix      |-> "You are an expert programmer. Analyze the code for bugs and provide a corrected version with explanations of the fixes.",
   test     |-> "You are an expert programmer. Generate comprehensive unit tests for the provided code using appropriate testing frameworks.",
   fim      |-> "You are an expert programmer. Complete the code between the given start and end sections, ensuring it flows naturally."]

\* A plausible slip: the suffix block is appended for every task.
createPrompt_AnyTask(code, language, task, suffix) ==
  LET langStr == IF Falsy(language) THEN "" ELSE " " \o language
      userContent ==
        <<"Here is the" \o langStr \o " code:", NL, NL,
          BT, BT, BT, OrElse(language, ""), NL, code, NL, BT, BT, BT>>
      withSuffix ==
        IF ~Falsy(suffix)
          THEN userContent \o
               <<NL, NL, "The code should end with:", NL, NL,
                 BT, BT, BT, OrElse(language, ""), NL, suffix, NL, BT, BT, BT>>
          ELSE userContent
  IN <<[role |-> "system", content |-> <<systemPrompts[task]>>],
       [role |-> "user", content |-> withSuffix]>>

\* createPrompt, lines 237-268.
createPrompt(code, language, task, suffix) ==
  LET langStr == IF Falsy(language) THEN "" ELSE " " \o language
      userContent ==
        <<"Here is the" \o langStr \o " code:", NL, NL,
          BT, BT, BT, OrElse(language, ""), NL, code, NL, BT, BT, BT>>
      withSuffix ==
        IF task = "fim" /\ ~Falsy(suffix)
          THEN userContent \o
               <<NL, NL, "The code should end with:", NL, NL,
                 BT, BT, BT, OrElse(language, ""), NL, suffix, NL, BT, BT, BT>>
          ELSE userContent
  IN <<[role |-> "system", content |-> <<systemPrompts[task]>>],
       [role |-> "user", content |-> withSuffix]>>

PromptInputs ==
  [code : {"x", "def add(a, b):", "return", ""},
   language : {Undefined, "", "python"},
   task : Tasks,
   suffix : {Undefined, "", "y"}]

\* createPrompt is called.
BuildPrompt(input) ==
  /\ call = NoCall
  /\ call' = [fn |-> "createPrompt", in |-> input,
              out |-> createPrompt(input.code, input.language, input.task, input.suffix)]
  /\ ServerUnchanged /\ UNCHANGED pacer

NextPrompt == \E input \in PromptInputs : BuildPrompt(input)

SpecPrompt == Init /\ [][NextPrompt]_vars

\* A block at position i of content: fence, tag, newline, body, newline, fence.
BlockAt(content, i, tag, body) ==
  /\ i + 9 <= Len(content)
  /\ FenceAt(content, i)
  /\ content[i + 3] = tag
  /\ content[i + 4] = NL
  /\ content[i + 5] = body
  /\ content[i + 6] = NL
  /\ FenceAt(content, i + 7)

\* The number of backticks of content.
Backticks(content) == Cardinality({i \in 1..Len(content) : content[i] = BT})

(***************************************************************************)
(* C15: createPrompt returns exactly two messages, system then user; the   *)
(* system text depends on the task only; the user text holds the code in a *)
(* fence tagged with the language (no tag when there is none), and a       *)
(* second fenced block with the suffix exactly when task = fim and a       *)
(* (non-empty) suffix is given.                                            *)
(***************************************************************************)
C15_PromptShape ==
  (call.fn = "createPrompt")
    => LET in == call.in
           user == call.out[2].content
           tag == IF in.language = Undefined THEN "" ELSE in.language
           withSuffix == in.task = "fim" /\ in.suffix \notin {Undefined, ""}
       IN /\ Len(call.out) = 2
          /\ call.out[1].role = "system"
          /\ call.out[2].role = "user"
          /\ \A other \in PromptInputs :
               other.task = in.task
                 => createPrompt(other.code, other.language, other.task,
                                 other.suffix)[1].content = call.out[1].content
          /\ BlockAt(user, 4, tag, in.code)
          /\ withSuffix => /\ Backticks(user) = 12
                           /\ \E i \in 14..Len(user) : BlockAt(user, i, tag, in.suffix)
          /\ ~withSuffix => Backticks(user) = 6

C15_Witness ==
  /\ call.fn = "createPrompt"
  /\ call.in.task = "fim" /\ call.in.suffix = "y" /\ call.in.language = "python"
  /\ call.in.code = "x"
  /\ BlockAt(call.out[2].content, 4, "python", "x")
  /\ BlockAt(call.out[2].content, 19, "python", "y")

(***************************************************************************)
(* mistral.ts: enforceRateLimit, lines 274-285, called by NumCallers call  *)
(* sequences.  pacer.waking[c] is when the timer of caller c is due        *)
(* (NoTime when c is not inside the method); pacer.stamps are the values   *)
(* of lastRequestTime the calls left behind, in the order they returned.   *)
(***************************************************************************)
\* Date.now() when the first call is made: a time long after the epoch.
ClockStart == 10 * minRequestInterval
ClockEnd == ClockStart + PacerTicks * TickMs

\* A plausible slip: the timer is set to the time elapsed, not the time left.
enforceRateLimit_wait_Elapsed(nowAtEntry, last) ==
  LET timeSinceLastRequest == nowAtEntry - last
  IN IF timeSinceLastRequest < minRequestInterval
       THEN timeSinceLastRequest
       ELSE 0

\* Lines 275-282: the delay of the timer, 0 when the method does not wait.
enforceRateLimit_wait(nowAtEntry, last) ==
  LET timeSinceLastRequest == nowAtEntry - last
  IN IF timeSinceLastRequest < minRequestInterval
       THEN minRequestInterval - timeSinceLastRequest
       ELSE 0

InitPacer ==
  /\ ServerInit
  /\ now = ClockStart
  /\ lastRequestTime = 0
  /\ pacer = NoPacer
  /\ call = NoCall

PacerUnchanged == UNCHANGED <<pc, lastDispatch, startup, exit, cur, call>>

InPacer == {c \in Callers : pacer.waking[c] # NoTime}

\* Caller c enters enforceRateLimit: it reads the clock and lastRequestTime
\* and either suspends on the timer or, without suspending, writes
\* lastRequestTime and returns.
PacerEnter(c) ==
  /\ pacer.waking[c] = NoTime
  /\ Len(pacer.stamps) + Cardinality(InPacer) < MaxPacerCalls
  /\ LET delay == enforceRateLimit_wait(now, lastRequestTime)
     IN IF delay > 0
          THEN /\ pacer' = [pacer EXCEPT !.waking[c] = now + delay]
               /\ UNCHANGED lastRequestTime
          ELSE /\ lastRequestTime' = now
               /\ pacer' = [pacer EXCEPT !.stamps = Append(@, now)]
  /\ UNCHANGED now
  /\ PacerUnchanged

\* Single-sequence use: a call begins only when no other call is under way.
PacerEnterAlone(c) ==
  /\ InPacer = {}
  /\ PacerEnter(c)

\* The timer of caller c fires, not before it is due: line 284 and return.
PacerWake(c) ==
  /\ pacer.waking[c] # NoTime
  /\ now >= pacer.waking[c]
  /\ lastRequestTime' = now
  /\ pacer' = [pacer EXCEPT !.waking[c] = NoTime, !.stamps = Append(@, now)]
  /\ UNCHANGED now
  /\ PacerUnchanged

\* Time passes.
PacerTick ==
  /\ now + TickMs <= ClockEnd
  /\ now' = now + TickMs
  /\ UNCHANGED <<lastRequestTime, pacer>>
  /\ PacerUnchanged

NextPacer ==
  \/ \E c \in Callers : PacerEnterAlone(c)
  \/ \E c \in Callers : PacerWake(c)
  \/ PacerTick

SpecPacer == InitPacer /\ [][NextPacer]_vars

NextPacerConcurrent ==
  \/ \E c \in Callers : PacerEnter(c)
  \/ \E c \in Callers : PacerWake(c)
  \/ PacerTick

SpecPacerConcurrent == InitPacer /\ [][NextPacerConcurrent]_vars

(***************************************************************************)
(* C16: under single-sequence use every call after the first leaves        *)
(* lastRequestTime at least 100 ms later than the call before it did; the  *)
(* timestamp is written on every call, after the wait.                     *)
(***************************************************************************)
C16_SequentialFloor ==
  /\ \A i \in 1..(Len(pacer.stamps) - 1) :
       pacer.stamps[i + 1] - pacer.stamps[i] >= minRequestInterval
  /\ pacer.stamps # <<>> => lastRequestTime = pacer.stamps[Len(pacer.stamps)]
  /\ \A c \in InPacer : pacer.waking[c] >= lastRequestTime + minRequestInterval

C16_Witness ==
  /\ Len(pacer.stamps) = 3
  /\ pacer.stamps[1] = ClockStart
  /\ pacer.stamps[2] = ClockStart + minRequestInterval
  /\ pacer.stamps[3] > pacer.stamps[2] + minRequestInterval
  /\ InPacer = {}

(***************************************************************************)
(* C17: when callers run enforceRateLimit concurrently, the read, the wait *)
(* and the write act as one critical section: the timestamps any two       *)
(* calls record are at least 100 ms apart.                                 *)
(***************************************************************************)
C17_ConcurrentFloor ==
  \A i, j \in 1..Len(pacer.stamps) :
    i < j => pacer.stamps[j] - pacer.stamps[i] >= minRequestInterval

====
